---- MODULE Spec2Model ----
(***************************************************************************)
(* Model of homework.py: a bot that polls the homework-review API and      *)
(* relays status messages to a Telegram chat.                              *)
(*                                                                         *)
(* Python values are tagged records ([type |-> ..., ...]) so that values   *)
(* of different Python types can be told apart and compared.  The Russian  *)
(* message texts of the source are rendered in ASCII English, one distinct *)
(* text per distinct source text.                                          *)
(***************************************************************************)
EXTENDS Integers, Sequences, FiniteSets, TLC

(***************************************************************************)
(* Python / JSON values                                                    *)
(***************************************************************************)
None == [type |-> "NoneType"]
PyStr(s) == [type |-> "str", s |-> s]
PyInt(n) == [type |-> "int", n |-> n]
PyList(e) == [type |-> "list", elems |-> e]
PyDict(f) == [type |-> "dict", items |-> f]

\* isinstance(v, dict) / isinstance(v, list)
IsDict(v) == v.type = "dict"
IsList(v) == v.type = "list"

\* dict.get(key, default)
DictGet(d, key, default) ==
    IF key \in DOMAIN d.items THEN d.items[key] ELSE default

\* An exception object: its class and its single constructor argument.
Exc(cls, msg) == [type |-> cls, msg |-> msg]

\* What a call returns: either a value, or the exception it raises.
Return(v) == [raise |-> None, value |-> v]
Raise(e) == [raise |-> e, value |-> None]

\* str(v) as the f-strings of the source apply it: a str is itself, None is
\* "None", KeyError shows the repr of its argument.  The builtin exceptions
\* and the ones of requests (OSError subclasses without a __str__ of their
\* own) show their single argument.  An elasticsearch NotFoundError built
\* with one argument cannot be shown: its __str__ reads self.args[1] (the
\* `error` property of TransportError), which raises IndexError.
Format(v) ==
    CASE v.type = "str" -> Return(v.s)
      [] v.type = "NoneType" -> Return("None")
      [] v.type = "KeyError" -> Return("'" \o v.msg \o "'")
      [] v.type = "NotFoundError" ->
           Raise(Exc("IndexError", "tuple index out of range"))
      [] OTHER -> Return(v.msg)

(***************************************************************************)
(* Module constants                                                        *)
(***************************************************************************)
RETRY_TIME == 600
HTTP_OK == 200
HTTP_NOT_FOUND == 404

HOMEWORK_STATUSES ==
    [approved |-> "Reviewed: the reviewer liked everything. Hurray!",
     reviewing |-> "Taken for review by the reviewer.",
     rejected |-> "Reviewed: the reviewer has remarks."]

\* hash(v) succeeds: a list and a dict are unhashable.
IsHashable(v) == v.type \notin {"list", "dict"}

\* A lookup that gives every documented status the verdict of "approved".
StatusesGet_Approved(key) ==
    IF ~IsHashable(key)
    THEN Raise(Exc("TypeError", "unhashable type: '" \o key.type \o "'"))
    ELSE IF key.type = "str" /\ key.s \in DOMAIN HOMEWORK_STATUSES
         THEN Return(PyStr(HOMEWORK_STATUSES["approved"]))
         ELSE Return(None)

\* HOMEWORK_STATUSES.get(key): the lookup hashes the key, so an unhashable key
\* raises TypeError; a hashable key that is not in the table gives None.
StatusesGet(key) ==
    IF ~IsHashable(key)
    THEN Raise(Exc("TypeError", "unhashable type: '" \o key.type \o "'"))
    ELSE IF key.type = "str" /\ key.s \in DOMAIN HOMEWORK_STATUSES
         THEN Return(PyStr(HOMEWORK_STATUSES[key.s]))
         ELSE Return(None)

\* The elasticsearch releases `from elasticsearch.exceptions import
\* NotFoundError` (line 14) can resolve to; the repository pins none.  Up to
\* 7.x NotFoundError is a TransportError(status_code, error, info); from 8.x
\* it is an ApiError(message, meta, body).
ElasticsearchReleases == {"7.x", "8.x"}

\* NotFoundError(msg), line 72: up to 7.x the one-argument instance is built,
\* from 8.x the constructor rejects the call.
NotFoundError(msg, release) ==
    IF release = "8.x"
    THEN Raise(Exc("TypeError",
           "ApiError.__init__() missing 2 required positional arguments: "
           \o "'meta' and 'body'"))
    ELSE Return(Exc("NotFoundError", msg))

\* The names check_tokens looks up, in its order.
tokens == <<"PRACTICUM_TOKEN", "TELEGRAM_TOKEN", "TELEGRAM_CHAT_ID">>

(***************************************************************************)
(* Bounds and the inputs drawn within them                                 *)
(***************************************************************************)
\* Longest `homeworks` list the server returns.
MaxHomeworks == 2

\* int(time.time()) at startup.
Clock == {PyInt(500)}

\* os.getenv: None for an unset variable, else its (possibly empty) string.
EnvValues == {None, PyStr(""), PyStr("tok")}
EnvSet == {None, PyStr("tok")}

\* Homework records the server may put in the list: the three documented
\* statuses, an undocumented one, a status that is a JSON array, no status,
\* no name, and a record that is no mapping.
HomeworkValues ==
    {PyDict([homework_name |-> PyStr("hw1"), status |-> PyStr(s)]) :
        s \in {"approved", "reviewing", "rejected", "pending"}}
    \cup {PyDict([homework_name |-> PyStr("hw1"), status |-> PyList(<<>>)]),
          PyDict([homework_name |-> PyStr("hw1")]),
          PyDict([status |-> PyStr("approved")]),
          PyStr("hw1")}

RECURSIVE SeqsUpTo(_, _)
SeqsUpTo(S, n) ==
    IF n = 0 THEN {<<>>}
    ELSE LET shorter == SeqsUpTo(S, n - 1)
         IN  shorter \cup {Append(q, x) : q \in shorter, x \in S}

HomeworkLists == SeqsUpTo(HomeworkValues, MaxHomeworks)

\* Values of the payload's current_date: an integer or null.
DateValues == {PyInt(1000), None}

\* Values of the payload's homeworks key: a list, or something else.
HomeworksValues == {PyList(l) : l \in HomeworkLists} \cup {PyStr("none")}

\* Parsed JSON bodies: mappings with or without each key, and a non-mapping.
Payloads ==
    {PyDict([homeworks |-> h, current_date |-> d]) :
        h \in HomeworksValues, d \in DateValues}
    \cup {PyDict([homeworks |-> h]) : h \in HomeworksValues}
    \cup {PyDict([current_date |-> d]) : d \in DateValues}
    \cup {PyDict(<<>>), PyList(<<>>)}

\* What r.get and response.json() can produce: no response at all (either
\* exception class can surface), a status code, and for 200 a body that
\* parses to a payload or does not parse.
FetchOutcomes ==
    {[net |-> n] : n \in {"requests.ConnectionError", "ConnectionError"}}
    \cup {[status_code |-> c] : c \in {HTTP_NOT_FOUND, 500}}
    \cup {[status_code |-> HTTP_OK, json |-> Raise(Exc("JSONDecodeError", "Expecting value"))]}
    \cup {[status_code |-> HTTP_OK, json |-> Return(p)] : p \in Payloads}

\* What bot.send_message can do: deliver, or raise.
SendOutcomes == {Return(None), Raise(Exc("TelegramError", "Timed out"))}

(***************************************************************************)
(* The functions of the module                                             *)
(***************************************************************************)
\* send_message without its try/except: a failed chat call propagates.
send_message_Propagates(message, sent) ==
    IF sent.raise = None THEN Return(None) ELSE Raise(sent.raise)

\* send_message: the chat call inside try/except Exception; `sent` is what
\* bot.send_message did.  Both branches only log.
send_message(message, sent) ==
    IF sent.raise = None THEN Return(None) ELSE Return(None)

\* get_api_answer, given what r.get and response.json() produce and the
\* elasticsearch release NotFoundError comes from.
get_api_answer(current_timestamp_, outcome, release) ==
    IF "net" \in DOMAIN outcome
    THEN IF outcome.net = "ConnectionError"
         THEN Raise(Exc("ConnectionError", "Failed to get a response from the API"))
         ELSE Raise(Exc(outcome.net, "Connection aborted"))
    ELSE IF outcome.status_code = HTTP_OK
         THEN IF outcome.json.raise = None
              THEN Return(outcome.json.value)
              \* raise JSONDecodeError(msg): the constructor needs msg, doc, pos
              ELSE Raise(Exc("TypeError",
                     "JSONDecodeError.__init__() missing 2 required positional arguments: 'doc' and 'pos'"))
         ELSE IF outcome.status_code = HTTP_NOT_FOUND
              THEN LET built == NotFoundError(
                                  "Failure: the endpoint is unavailable. "
                                  \o "API response code: "
                                  \o ToString(outcome.status_code), release)
                   IN  IF built.raise # None
                       THEN Raise(built.raise)
                       ELSE Raise(built.value)
              ELSE Raise(Exc("RequestException",
                     "Failure when requesting the endpoint. API response code: "
                     \o ToString(outcome.status_code)))

\* check_response reading the key with an empty list as default.
check_response_DefaultList(response_) ==
    IF ~IsDict(response_)
    THEN Raise(Exc("TypeError", "The API sent data that is not a dict."))
    ELSE LET homework_list_ == DictGet(response_, "homeworks", PyList(<<>>))
         IN  IF ~IsList(homework_list_)
             THEN Raise(Exc("TypeError", "The data under the homeworks key is not a list."))
             ELSE Return(homework_list_)

\* check_response
check_response(response_) ==
    IF ~IsDict(response_)
    THEN Raise(Exc("TypeError", "The API sent data that is not a dict."))
    ELSE LET homework_list_ == DictGet(response_, "homeworks", None)
         IN  IF ~IsList(homework_list_)
             THEN Raise(Exc("TypeError", "The data under the homeworks key is not a list."))
             ELSE Return(homework_list_)

\* parse_status.  homework.get on a non-mapping raises AttributeError; the
\* handler `except type(homework) != dict:` then names True, which is no
\* exception class, so matching it raises TypeError.  On a mapping .get never
\* raises, so neither except clause is evaluated.  The lookup of line 107 is
\* outside the try block: what it raises leaves parse_status as it is.
parse_status(homework) ==
    IF ~IsDict(homework)
    THEN Raise(Exc("TypeError",
           "catching classes that do not inherit from BaseException is not allowed"))
    ELSE LET homework_name == DictGet(homework, "homework_name", None)
             looked == StatusesGet(DictGet(homework, "status", None))
             verdict == looked.value
         IN  IF looked.raise # None
             THEN Raise(looked.raise)
             ELSE IF verdict = None
                  THEN Raise(Exc("KeyError", "Undocumented homework status."))
                  ELSE Return(PyStr("Homework review status changed \""
                                    \o Format(homework_name).value \o "\". " \o verdict.s))

\* check_tokens: the names whose module global is None, and whether none is.
check_tokens(environ) ==
    LET missing == SelectSeq(tokens, LAMBDA token : environ[token] = None)
    IN  [ok |-> Len(missing) = 0, missing_tokens |-> missing]

\* t.Bot(token=...): the library rejects an empty token.
Bot(token) ==
    IF token = PyStr("") THEN Raise(Exc("InvalidToken", "Invalid token"))
    ELSE Return(PyStr("bot"))

\* main, line 151: an exception object never equals the str msg_error.
ErrorDiffers(error_, msg_error_) == error_ # msg_error_

(***************************************************************************)
(* State                                                                   *)
(***************************************************************************)
VARIABLES
    environ,            \* PRACTICUM_TOKEN, TELEGRAM_TOKEN, TELEGRAM_CHAT_ID
    missing_tokens,     \* the global check_tokens fills
    pc,                 \* the statement of main that runs next
    current_timestamp,  \* the poll cursor
    msg_error,
    response,           \* the payload this iteration fetched
    homework_list,
    position,           \* index in homework_list of the record the for loop takes next
    error,              \* the exception caught in this iteration, None if none
    raised,             \* the exception that ended main, None while it runs
    elasticsearch,      \* the elasticsearch release that is installed
    trace,              \* the external calls since the latest sleep, that sleep first
    last_status,        \* status of the record most recently notified ("" at start)
    previous            \* the one-record payload the previous iteration notified, or None

pvars == <<environ, missing_tokens, pc, current_timestamp, msg_error, response,
           homework_list, position, error, raised, trace>>
hvars == <<last_status, previous>>
vars == <<environ, missing_tokens, pc, current_timestamp, msg_error, response,
          homework_list, position, error, raised, trace, last_status, previous,
          elasticsearch>>

LoopPcs == {"get_api_answer", "check_response", "for", "update", "except", "sleep"}

\* Entries of trace.
GetCall(from_date) == [call |-> "get", from_date |-> from_date]
SendCall(kind, index, message, sent) ==
    [call |-> "send", kind |-> kind, index |-> index, message |-> message,
     delivered |-> (sent.raise = None)]
SleepCall(secs) == [call |-> "sleep", secs |-> secs]

InitWith(E) ==
    /\ environ \in [{tokens[k] : k \in 1..Len(tokens)} -> E]
    /\ missing_tokens = <<>>
    /\ pc = "check_tokens"
    /\ current_timestamp = None
    /\ msg_error = None
    /\ response = None
    /\ homework_list = None
    /\ position = 1
    /\ error = None
    /\ raised = None
    /\ trace = <<>>
    /\ last_status = ""
    /\ previous = None
    /\ elasticsearch \in ElasticsearchReleases

\* Every credential is either unset or set to a usable value.
Init == InitWith(EnvSet)
\* A credential may also be set to the empty string.
InitEnv == InitWith(EnvValues)

(***************************************************************************)
(* main, one action per statement                                          *)
(***************************************************************************)
\* Lines 130-135: the credential check; on failure main raises InvalidToken.
CheckTokens ==
    /\ pc = "check_tokens"
    /\ LET checked == check_tokens(environ)
       IN  /\ missing_tokens' = checked.missing_tokens
           /\ IF ~checked.ok
              THEN /\ raised' = Exc("InvalidToken", "")
                   /\ pc' = "exit"
              ELSE /\ raised' = raised
                   /\ pc' = "bot"
    /\ UNCHANGED <<environ, current_timestamp, msg_error, response, homework_list,
                   position, error, trace>>

\* Lines 136-138: the bot, the first cursor, msg_error.
Setup ==
    /\ pc = "bot"
    /\ LET bot == Bot(environ["TELEGRAM_TOKEN"])
       IN  IF bot.raise # None
           THEN /\ raised' = bot.raise
                /\ pc' = "exit"
                /\ UNCHANGED <<current_timestamp, msg_error>>
           ELSE /\ current_timestamp' \in Clock
                /\ msg_error' = PyStr("")
                /\ pc' = "get_api_answer"
                /\ raised' = raised
    /\ UNCHANGED <<environ, missing_tokens, response, homework_list, position,
                   error, trace>>

\* Line 141: the fetch, with from_date the cursor.
GetApiAnswer ==
    /\ pc = "get_api_answer"
    /\ \E outcome \in FetchOutcomes :
         LET answer == get_api_answer(current_timestamp, outcome, elasticsearch)
         IN  IF answer.raise # None
             THEN /\ error' = answer.raise
                  /\ pc' = "except"
                  /\ response' = response
             ELSE /\ error' = error
                  /\ pc' = "check_response"
                  /\ response' = answer.value
    /\ trace' = Append(trace, GetCall(current_timestamp))
    /\ UNCHANGED <<environ, missing_tokens, current_timestamp, msg_error,
                   homework_list, position, raised>>

\* Validation with the cursor update of line 149 moved before the for loop.
CheckResponse_UpdatesCursor ==
    /\ pc = "check_response"
    /\ LET checked == check_response(response)
       IN  IF checked.raise # None
           THEN /\ error' = checked.raise
                /\ pc' = "except"
                /\ UNCHANGED <<homework_list, position, current_timestamp>>
           ELSE /\ homework_list' = checked.value
                /\ position' = 1
                /\ current_timestamp' =
                     DictGet(response, "current_date", current_timestamp)
                /\ pc' = IF Len(checked.value.elems) = 0 THEN "update" ELSE "for"
                /\ error' = error
    /\ UNCHANGED <<environ, missing_tokens, msg_error, response, raised, trace>>

\* Lines 142-145: validation; an empty list goes straight to line 149.
CheckResponse ==
    /\ pc = "check_response"
    /\ LET checked == check_response(response)
       IN  IF checked.raise # None
           THEN /\ error' = checked.raise
                /\ pc' = "except"
                /\ UNCHANGED <<homework_list, position>>
           ELSE /\ homework_list' = checked.value
                /\ position' = 1
                /\ pc' = IF Len(checked.value.elems) = 0 THEN "update" ELSE "for"
                /\ error' = error
    /\ UNCHANGED <<environ, missing_tokens, current_timestamp, msg_error, response,
                   raised, trace>>

\* The for loop walking the list from its end.
ForHomework_Reversed ==
    /\ pc = "for"
    /\ LET index == Len(homework_list.elems) - position + 1
           parsed == parse_status(homework_list.elems[index])
       IN  IF parsed.raise # None
           THEN /\ error' = parsed.raise
                /\ pc' = "except"
                /\ UNCHANGED <<position, trace>>
           ELSE /\ \E sent \in SendOutcomes :
                     trace' = Append(trace,
                                SendCall("homework", index, parsed.value.s, sent))
                /\ error' = error
                /\ position' = position + 1
                /\ pc' = IF position = Len(homework_list.elems) THEN "update" ELSE "for"
    /\ UNCHANGED <<environ, missing_tokens, current_timestamp, msg_error, response,
                   homework_list, raised>>

\* The for loop stepping over a record parse_status rejects.
ForHomework_SkipBad ==
    /\ pc = "for"
    /\ LET parsed == parse_status(homework_list.elems[position])
       IN  IF parsed.raise # None
           THEN UNCHANGED trace
           ELSE \E sent \in SendOutcomes :
                  trace' = Append(trace,
                             SendCall("homework", position, parsed.value.s, sent))
    /\ position' = position + 1
    /\ pc' = IF position = Len(homework_list.elems) THEN "update" ELSE "for"
    /\ UNCHANGED <<environ, missing_tokens, current_timestamp, msg_error, response,
                   homework_list, error, raised>>

\* The for loop giving up the iteration when a notification is not delivered.
ForHomework_BreakOnFailure ==
    /\ pc = "for"
    /\ LET parsed == parse_status(homework_list.elems[position])
       IN  IF parsed.raise # None
           THEN /\ error' = parsed.raise
                /\ pc' = "except"
                /\ UNCHANGED <<position, trace>>
           ELSE \E sent \in SendOutcomes :
                  /\ trace' = Append(trace,
                                SendCall("homework", position, parsed.value.s, sent))
                  /\ error' = error
                  /\ position' = position + 1
                  /\ pc' = IF sent.raise # None THEN "sleep"
                           ELSE IF position = Len(homework_list.elems)
                                THEN "update" ELSE "for"
    /\ UNCHANGED <<environ, missing_tokens, current_timestamp, msg_error, response,
                   homework_list, raised>>

\* Lines 146-148: one pass of the for loop: parse_status, then send_message.
ForHomework ==
    /\ pc = "for"
    /\ LET homework == homework_list.elems[position]
           parsed == parse_status(homework)
       IN  IF parsed.raise # None
           THEN /\ error' = parsed.raise
                /\ pc' = "except"
                /\ UNCHANGED <<position, trace>>
           ELSE \E sent \in SendOutcomes :
                  LET done == send_message(parsed.value, sent)
                  IN  /\ trace' = Append(trace,
                                    SendCall("homework", position, parsed.value.s, sent))
                      /\ IF done.raise # None
                         THEN /\ error' = done.raise
                              /\ pc' = "except"
                              /\ position' = position
                         ELSE /\ error' = error
                              /\ position' = position + 1
                              /\ pc' = IF position = Len(homework_list.elems)
                                       THEN "update" ELSE "for"
    /\ UNCHANGED <<environ, missing_tokens, current_timestamp, msg_error, response,
                   homework_list, raised>>

\* Line 149 with response.get('current_date') and no default.
UpdateTimestamp_NoDefault ==
    /\ pc = "update"
    /\ current_timestamp' = DictGet(response, "current_date", None)
    /\ pc' = "sleep"
    /\ UNCHANGED <<environ, missing_tokens, msg_error, response, homework_list,
                   position, error, raised, trace>>

\* Line 149: the cursor moves to current_date when the payload has that key.
UpdateTimestamp ==
    /\ pc = "update"
    /\ current_timestamp' = DictGet(response, "current_date", current_timestamp)
    /\ pc' = "sleep"
    /\ UNCHANGED <<environ, missing_tokens, msg_error, response, homework_list,
                   position, error, raised, trace>>

\* The handler with the sleep left inside the try block: a failed iteration
\* goes on to the next fetch at once.
Except_NoSleep ==
    /\ pc = "except"
    /\ LET text == Format(error)
       IN  IF text.raise # None
           THEN /\ raised' = text.raise
                /\ pc' = "exit"
                /\ trace' = trace
           ELSE /\ \E sent \in SendOutcomes :
                     trace' = Append(trace,
                                SendCall("alert", 0, "Failure: " \o text.value, sent))
                /\ raised' = raised
                /\ pc' = "get_api_answer"
    /\ UNCHANGED <<environ, missing_tokens, current_timestamp, msg_error, response,
                   homework_list, position, error>>

\* Lines 150-153: the handler of the iteration; an exception raised in it
\* (by the f-string of line 152 or by send_message) leaves main.
Except ==
    /\ pc = "except"
    /\ IF ErrorDiffers(error, msg_error)
       THEN LET text == Format(error)
            IN  IF text.raise # None
                THEN /\ raised' = text.raise
                     /\ pc' = "exit"
                     /\ trace' = trace
                ELSE \E sent \in SendOutcomes :
                       LET message == "Failure: " \o text.value
                           done == send_message(message, sent)
                       IN  /\ trace' = Append(trace,
                                         SendCall("alert", 0, message, sent))
                           /\ IF done.raise # None
                              THEN /\ raised' = done.raise
                                   /\ pc' = "exit"
                              ELSE /\ raised' = raised
                                   /\ pc' = "sleep"
       ELSE /\ pc' = "sleep"
            /\ UNCHANGED <<raised, trace>>
    /\ UNCHANGED <<environ, missing_tokens, current_timestamp, msg_error, response,
                   homework_list, position, error>>

\* Line 154: the sleep that ends every iteration.  The locals of the
\* iteration are dead from here on (the next iteration assigns response,
\* homework_list, homework and error before it reads them), so they are
\* cleared.
Sleep ==
    /\ pc = "sleep"
    /\ trace' = <<SleepCall(RETRY_TIME)>>
    /\ pc' = "get_api_answer"
    /\ response' = None
    /\ homework_list' = None
    /\ position' = 1
    /\ error' = None
    /\ UNCHANGED <<environ, missing_tokens, current_timestamp, msg_error, raised>>

Next ==
    \/ CheckTokens /\ UNCHANGED hvars /\ UNCHANGED elasticsearch
    \/ Setup /\ UNCHANGED hvars /\ UNCHANGED elasticsearch
    \/ GetApiAnswer /\ UNCHANGED hvars /\ UNCHANGED elasticsearch
    \/ CheckResponse /\ UNCHANGED hvars /\ UNCHANGED elasticsearch
    \/ ForHomework /\ UNCHANGED hvars /\ UNCHANGED elasticsearch
    \/ UpdateTimestamp /\ UNCHANGED hvars /\ UNCHANGED elasticsearch
    \/ Except /\ UNCHANGED hvars /\ UNCHANGED elasticsearch
    \/ Sleep /\ UNCHANGED hvars /\ UNCHANGED elasticsearch

Spec == Init /\ [][Next]_vars

\* Credentials that may be empty strings.
SpecEnv == InitEnv /\ [][Next]_vars

\* A sequential program whose calls all return takes its next step.
FairSpec == Spec /\ WF_vars(Next)

(***************************************************************************)
(* The specification's Last-Notified Status, observed over the code        *)
(***************************************************************************)
\* Helpers over the trace.
Entries(call) == {k \in 1..Len(trace) : trace[k].call = call}
HomeworkSends == {k \in Entries("send") : trace[k].kind = "homework"}
AlertSends == {k \in Entries("send") : trace[k].kind = "alert"}
JustFetched == trace # <<>> /\ trace[Len(trace)].call = "get"
FetchCall == trace[CHOOSE k \in Entries("get") : TRUE]

KnownStatuses == {"approved", "reviewing", "rejected"}
HasKnownStatus(homework) ==
    /\ IsDict(homework)
    /\ "status" \in DOMAIN homework.items
    /\ homework.items["status"].type = "str"
    /\ homework.items["status"].s \in KnownStatuses
IsValidPayload(payload) ==
    /\ IsDict(payload)
    /\ "homeworks" \in DOMAIN payload.items
    /\ IsList(payload.items["homeworks"])
AllKnown(payload) ==
    /\ IsValidPayload(payload)
    /\ \A k \in 1..Len(payload.items["homeworks"].elems) :
         HasKnownStatus(payload.items["homeworks"].elems[k])
IsSingleKnown(payload) ==
    AllKnown(payload) /\ Len(payload.items["homeworks"].elems) = 1

\* A step delivered a homework notification.
Notified ==
    /\ Len(trace') = Len(trace) + 1
    /\ trace'[Len(trace')].call = "send"
    /\ trace'[Len(trace')].kind = "homework"
    /\ trace'[Len(trace')].delivered

\* last_status follows the delivered notifications; previous keeps, over the
\* sleep, a one-record payload whose notification the iteration delivered.
Observe ==
    /\ last_status' = IF Notified
                      THEN homework_list.elems[position].items["status"].s
                      ELSE last_status
    /\ previous' = IF pc = "sleep"
                   THEN IF /\ error = None
                           /\ IsSingleKnown(response)
                           /\ \E k \in HomeworkSends : trace[k].delivered
                        THEN response
                        ELSE None
                   ELSE previous

NextHist ==
    \/ CheckTokens /\ Observe /\ UNCHANGED elasticsearch
    \/ Setup /\ Observe /\ UNCHANGED elasticsearch
    \/ GetApiAnswer /\ Observe /\ UNCHANGED elasticsearch
    \/ CheckResponse /\ Observe /\ UNCHANGED elasticsearch
    \/ ForHomework /\ Observe /\ UNCHANGED elasticsearch
    \/ UpdateTimestamp /\ Observe /\ UNCHANGED elasticsearch
    \/ Except /\ Observe /\ UNCHANGED elasticsearch
    \/ Sleep /\ Observe /\ UNCHANGED elasticsearch

SpecHist == Init /\ [][NextHist]_vars

(***************************************************************************)
(* Claims                                                                  *)
(***************************************************************************)
\* C1 (as claimed): for a payload whose records all have known statuses, the
\* for loop sends a homework notification for a record if and only if the
\* record's status differs from the Last-Notified Status at that moment.
C1_NotifyOnlyOnChange ==
    [][(pc = "for" /\ AllKnown(response))
         => ((Len(trace') = Len(trace) + 1)
             <=> homework_list.elems[position].items["status"].s # last_status)]_vars

\* C2 (as claimed): when an iteration fetches the one-record payload that the
\* previous iteration fetched and notified, it sends nothing to the chat.
C2_SecondFetchSilent ==
    (pc = "sleep" /\ previous # None /\ response = previous)
        => Entries("send") = {}

\* The credentials that are absent or empty.
Unusable == {name \in DOMAIN environ : environ[name] \in {None, PyStr("")}}

\* C3 (as claimed): the loop runs only with all three credentials present
\* and non-empty; with any of them absent or empty main ends in the
\* configuration error before any call, and missing_tokens lists exactly the
\* credentials that are absent or empty.
C3_LoopNeedsCredentials ==
    /\ pc \in LoopPcs => Unusable = {}
    /\ (Unusable # {} /\ pc # "check_tokens")
         => /\ pc = "exit"
            /\ raised.type = "InvalidToken"
            /\ trace = <<>>
            /\ {missing_tokens[k] : k \in 1..Len(missing_tokens)} = Unusable

\* C4 (as claimed): once the loop runs, main never ends, whatever a fetch
\* (HTTP 404 included), a validation, a status lookup or a send does, and a
\* fetch is issued again and again.
C4_LoopNeverStops ==
    [](pc \in LoopPcs => [](raised = None /\ <>JustFetched))

\* A mapping whose status is missing or is not a documented one.
Undocumented(homework) == IsDict(homework) /\ ~HasKnownStatus(homework)

\* C5 (as claimed): a record that is a mapping whose status is not a
\* documented one (or is missing) makes parse_status raise the
\* undocumented-status KeyError; no homework notification goes out for it and
\* the for loop stops at it.
C5_UndocumentedStatus ==
    homework_list # None =>
      \A k \in 1..Len(homework_list.elems) :
        Undocumented(homework_list.elems[k]) =>
          /\ \A j \in HomeworkSends : trace[j].index # k
          /\ position <= k
          /\ (position = k /\ pc # "for")
               => /\ pc \in {"except", "sleep"}
                  /\ error = Exc("KeyError", "Undocumented homework status.")

\* C6: check_response raises the shape error (TypeError) for a payload that is
\* no mapping, has no homeworks key or has a non-list under it, and no
\* homework notification goes out in that iteration; otherwise it returns the
\* list under homeworks as it is.
C6_ShapeError ==
    (response # None /\ pc # "check_response") =>
      IF IsValidPayload(response)
      THEN homework_list = response.items["homeworks"]
      ELSE /\ pc \in {"except", "sleep"}
           /\ error.type = "TypeError"
           /\ homework_list = None
           /\ HomeworkSends = {}
\* A mapping without the homeworks key reached the handler.
C6_Witness ==
    /\ pc = "except"
    /\ IsDict(response)
    /\ "homeworks" \notin DOMAIN response.items
    /\ error.type = "TypeError"

\* C7: the fetch takes the cursor as from_date; after an iteration without
\* error the cursor is the payload's current_date when the payload has that
\* key and is what it was otherwise.
C7_CursorUpdate ==
    Entries("get") # {} =>
      IF pc = "sleep" /\ error = None
      THEN current_timestamp =
             IF "current_date" \in DOMAIN response.items
             THEN response.items["current_date"]
             ELSE FetchCall.from_date
      ELSE FetchCall.from_date = current_timestamp
\* A fetch with from_date 1000 that follows an iteration which set the cursor
\* from current_date 1000.
C7_Witness ==
    /\ JustFetched
    /\ FetchCall.from_date = PyInt(1000)

\* C8: a chat send that fails is swallowed by send_message: main goes on as
\* after a delivered one (the for loop moves past the record, the handler
\* goes to the sleep), and no TelegramError reaches the handler or leaves
\* main.
C8_SendFailureSwallowed ==
    /\ error.type # "TelegramError"
    /\ raised.type # "TelegramError"
    /\ \A k \in Entries("send") :
         ~trace[k].delivered =>
           /\ raised = None
           /\ IF trace[k].kind = "homework"
              THEN position > trace[k].index
              ELSE pc = "sleep"
\* A failed homework notification and a failed alert in one iteration.
C8_Witness ==
    /\ pc = "sleep"
    /\ \E k \in HomeworkSends : ~trace[k].delivered
    /\ \E k \in AlertSends : ~trace[k].delivered

\* C9 (as claimed): an iteration that caught an error, once its handler is
\* done, has attempted exactly one alert, its last send, and one that caught
\* none has attempted no alert; msg_error stays the empty string, so an
\* earlier failure never suppresses the alert.
C9_OneAlertPerFailure ==
    /\ pc \in LoopPcs => msg_error = PyStr("")
    /\ pc \in {"sleep", "exit"} =>
         IF error # None
         THEN /\ Cardinality(AlertSends) = 1
              /\ AlertSends = {Len(trace)}
              /\ Format(error).raise = None
              /\ trace[Len(trace)].message = "Failure: " \o Format(error).value
         ELSE AlertSends = {}

\* C10: sleeps and fetches alternate: a fetch is issued either first of all
\* or right after one sleep of RETRY_TIME = 600 seconds, and every iteration,
\* failed or not, reaches the sleep with exactly one fetch since the last one.
C10_OneSleepPerIteration ==
    /\ pc = "get_api_answer" => trace \in {<<>>, <<SleepCall(600)>>}
    /\ \A k \in Entries("sleep") : k = 1 /\ trace[k].secs = 600
    /\ \A k \in Entries("get") : k = 1 \/ (k = 2 /\ trace[1].call = "sleep")
    /\ pc = "sleep" => Cardinality(Entries("get")) = 1
\* A failed iteration that followed a sleep is about to sleep again.
C10_Witness ==
    /\ pc = "sleep"
    /\ error # None
    /\ Len(trace) >= 2
    /\ trace[1] = SleepCall(600)
    /\ trace[2].call = "get"

\* The homework notifications of this iteration, in the order of their sends.
HomeworkTrace ==
    SelectSeq(trace, LAMBDA c : c.call = "send" /\ c.kind = "homework")

\* C11: within an iteration the records are taken in the order of the list:
\* the j-th homework notification is the one of record j, and the for loop
\* looks at record j + 1 only when j notifications have been attempted.
C11_ListOrder ==
    homework_list # None =>
      /\ Len(HomeworkTrace) <= Len(homework_list.elems)
      /\ \A j \in 1..Len(HomeworkTrace) :
           /\ HomeworkTrace[j].index = j
           /\ HomeworkTrace[j].message = parse_status(homework_list.elems[j]).value.s
      /\ position = Len(HomeworkTrace) + 1
\* Two records with different statuses, both notified.
C11_Witness ==
    /\ homework_list # None
    /\ Len(HomeworkTrace) = 2
    /\ HomeworkTrace[1].message # HomeworkTrace[2].message

\* C12 (as claimed): the poll cursor is an integer in every state of the
\* loop, whatever current_date the payloads carry.
C12_CursorIsInteger ==
    pc \in LoopPcs => current_timestamp.type = "int"

\* C13 (as claimed): for a record that is a mapping without homework_name
\* parse_status raises KeyError, for a record that is no mapping it raises
\* TypeError; neither record gets a notification message.
C13_NameAndTypeChecked ==
    homework_list # None =>
      \A k \in 1..Len(homework_list.elems) :
        LET homework == homework_list.elems[k]
            stopped == position = k /\ pc \in {"except", "sleep"}
        IN  /\ (IsDict(homework) /\ "homework_name" \notin DOMAIN homework.items)
                 => /\ \A j \in HomeworkSends : trace[j].index # k
                    /\ stopped => error.type = "KeyError"
            /\ ~IsDict(homework)
                 => /\ \A j \in HomeworkSends : trace[j].index # k
                    /\ stopped => error.type = "TypeError"

\* The verdict text the table of the source gives each documented status.
VerdictText(status) ==
    CASE status = "approved" -> "Reviewed: the reviewer liked everything. Hurray!"
      [] status = "reviewing" -> "Taken for review by the reviewer."
      [] status = "rejected" -> "Reviewed: the reviewer has remarks."

\* C14: every homework notification is for a record with a documented status
\* and is the text built from the record's homework_name and the verdict of
\* that status; notifications of records that differ only in status differ.
C14_VerdictOfStatus ==
    homework_list # None =>
      /\ \A j \in HomeworkSends :
           LET homework == homework_list.elems[trace[j].index]
               name == IF "homework_name" \in DOMAIN homework.items
                       THEN homework.items["homework_name"].s ELSE "None"
           IN  /\ HasKnownStatus(homework)
               /\ trace[j].message =
                    "Homework review status changed \"" \o name \o "\". "
                    \o VerdictText(homework.items["status"].s)
      /\ \A i, j \in HomeworkSends :
           LET a == homework_list.elems[trace[i].index]
               b == homework_list.elems[trace[j].index]
           IN  (/\ DOMAIN a.items = DOMAIN b.items
                /\ DictGet(a, "homework_name", None) = DictGet(b, "homework_name", None)
                /\ a.items["status"] # b.items["status"])
                 => trace[i].message # trace[j].message
\* A "reviewing" and a "rejected" record notified in one iteration.
C14_Witness ==
    /\ homework_list # None
    /\ Len(HomeworkTrace) = 2
    /\ homework_list.elems[1] =
         PyDict([homework_name |-> PyStr("hw1"), status |-> PyStr("reviewing")])
    /\ homework_list.elems[2] =
         PyDict([homework_name |-> PyStr("hw1"), status |-> PyStr("rejected")])

\* C15: in an iteration that ends in a caught error the cursor stays what the
\* fetch of that iteration used as from_date, also when the payload carries a
\* current_date, so the next fetch uses the same from_date.
C15_CursorKeptOnError ==
    [][/\ (error' # None /\ pc' \in {"except", "sleep"})
            => current_timestamp' = FetchCall'.from_date
       /\ pc = "sleep" => current_timestamp' = current_timestamp
       /\ pc = "get_api_answer"
            => trace'[Len(trace')] = GetCall(current_timestamp)]_vars
\* The second record of a payload with a current_date other than the cursor
\* was rejected; the iteration is about to sleep.
C15_Witness ==
    /\ pc = "sleep"
    /\ error # None
    /\ position = 2
    /\ "current_date" \in DOMAIN response.items
    /\ response.items["current_date"] # current_timestamp

\* The chat sends of this iteration, in order.
SendTrace == SelectSeq(trace, LAMBDA c : c.call = "send")

\* C16: when record k has an undocumented status and the k - 1 records before
\* it are ones parse_status accepts, the chat sends of the iteration are one
\* homework notification for each of records 1 .. k - 1, in order, and then
\* one alert, which carries the error parse_status raised for record k; the
\* for loop never goes past record k.
C16_StopsAtUndocumented ==
    homework_list # None =>
      \A k \in 1..Len(homework_list.elems) :
        (/\ Undocumented(homework_list.elems[k])
         /\ \A i \in 1..(k - 1) : HasKnownStatus(homework_list.elems[i]))
          => /\ position <= k
             /\ \A j \in HomeworkSends : trace[j].index < k
             /\ pc = "sleep"
                  => /\ Len(SendTrace) = k
                     /\ \A i \in 1..(k - 1) :
                          /\ SendTrace[i].kind = "homework"
                          /\ SendTrace[i].index = i
                     /\ SendTrace[k].kind = "alert"
                     /\ SendTrace[k].message =
                          "Failure: "
                          \o Format(parse_status(homework_list.elems[k]).raise).value
\* A list whose second record has an undocumented status, after the alert.
C16_Witness ==
    /\ pc = "sleep"
    /\ homework_list # None
    /\ Len(homework_list.elems) = 2
    /\ HasKnownStatus(homework_list.elems[1])
    /\ Undocumented(homework_list.elems[2])
    /\ Len(SendTrace) = 2

\* C17: a homework notification that is not delivered does not end the
\* iteration: the for loop moves on to the next record, the notification is
\* attempted once only, and an iteration with no error has attempted one
\* notification per record and has set the cursor from current_date.
C17_FailedSendGoesOn ==
    homework_list # None =>
      /\ \A j \in HomeworkSends :
           ~trace[j].delivered =>
             /\ position > trace[j].index
             /\ \A i \in HomeworkSends : trace[i].index = trace[j].index => i = j
             /\ error.type # "TelegramError"
      /\ (pc = "sleep" /\ error = None)
           => /\ {trace[j].index : j \in HomeworkSends} = 1..Len(homework_list.elems)
              /\ current_timestamp =
                   DictGet(response, "current_date", FetchCall.from_date)
\* The first of two notifications failed, the second went out, and the
\* iteration ended with the cursor moved to current_date.
C17_Witness ==
    /\ pc = "sleep"
    /\ error = None
    /\ Len(HomeworkTrace) = 2
    /\ ~HomeworkTrace[1].delivered
    /\ HomeworkTrace[2].delivered
    /\ current_timestamp = PyInt(1000)

====
